---- MODULE Spec2Model ----
(***************************************************************************)
(* Model of quill-delta-rs: the Op data model (op.rs) and the Delta to     *)
(* HTML renderer (renderer.rs).  Strings are sequences of one-character    *)
(* strings; the sink `dest` is the sequence of characters written so far.  *)
(***************************************************************************)
EXTENDS Integers, Sequences, FiniteSets, TLC

\* input: the ops handed to write_into; ops, insert_index, current,
\* inline_buf: the fields of OpVistorCtx; dest: the sink; pc: where control is;
\* writes: the appends asked of the sink; fail_at: the append at which the
\* sink fails (0: never); prev: what an earlier render of input wrote;
\* api: the call on the Op API and its outcome
VARIABLES input, ops, insert_index, current, inline_buf, dest, pc,
          writes, fail_at, prev, api

vars == <<input, ops, insert_index, current, inline_buf, dest, pc,
          writes, fail_at, prev, api>>

(***************************************************************************)
(* Bounds of the model.                                                    *)
(***************************************************************************)
\* longest text of an insert in the single-op inputs
MaxLen == 3
\* longest op sequence in the multi-op inputs
MaxOps == 3
\* largest numeric header value tried
MaxHeader == 7
\* the longest op sequence rendered into a failing sink
MaxSinkOps == 2
\* the latest append a sink fails at
MaxFail == 6
\* the longest text and the largest span length handed to the Op constructors
MaxApiLen == 2
MaxSpan == 3
\* the number of calls made on one OpVistorCtx
MaxCalls == 6

(***************************************************************************)
(* Strings.                                                                *)
(***************************************************************************)
NL == "\n"

\* the characters the rendered texts are made of (none occurs in a tag);
\* each is one byte long, so a byte offset into a text is an index into it
Chars == {"x", "y", NL}

Contains(s, ch) == \E i \in 1..Len(s) : s[i] = ch

\* str.split('\n').next(): the piece before the first newline, or all of s
RECURSIVE SplitFirst(_)
SplitFirst(s) ==
    IF s = <<>> \/ Head(s) = NL THEN <<>>
    ELSE <<Head(s)>> \o SplitFirst(Tail(s))

Digits == <<"0", "1", "2", "3", "4", "5", "6", "7", "8", "9">>

\* "{}" of an unsigned integer: its decimal digits
RECURSIVE FormatU64(_)
FormatU64(n) ==
    IF n < 10 THEN <<Digits[n + 1]>>
    ELSE FormatU64(n \div 10) \o <<Digits[(n % 10) + 1]>>

(***************************************************************************)
(* serde_json::Value, Option and AttributesMap.                            *)
(***************************************************************************)
VBool(b) == [t |-> "Bool", v |-> b]
VString(s) == [t |-> "String", v |-> s]
VNumber(n) == [t |-> "Number", v |-> n]
VObject == [t |-> "Object", v |-> 0]

\* Option<T> is a sequence of length 0 (None) or 1 (Some)
None == <<>>
Some(x) == <<x>>

\* An AttributesMap is an ordered list of <<key, value>> entries with unique
\* keys, in declaration order.
AttributesMap_new == <<>>

AttributesMap_is_empty(m) == Len(m) = 0

RECURSIVE AttributesMap_get(_, _)
AttributesMap_get(m, key) ==
    IF m = <<>> THEN None
    ELSE IF Head(m)[1] = key THEN Some(Head(m)[2])
    ELSE AttributesMap_get(Tail(m), key)

\* Number::as_u64: Some for a non-negative integer
as_u64(n) == IF n >= 0 THEN Some(n) ELSE None

(***************************************************************************)
(* op.rs: Op and OpType.                                                   *)
(***************************************************************************)
OpInsert(value, attrs) == [kind |-> "insert", value |-> value, attributes |-> attrs]
OpRetain(n, attrs) == [kind |-> "retain", value |-> VNumber(n), attributes |-> attrs]
OpDelete(n) == [kind |-> "delete", value |-> VNumber(n), attributes |-> AttributesMap_new]

Op_is_text_insert(op) == op.kind = "insert" /\ op.value.t = "String"

\* Op::attributes without its Delete arm
Op_attributes_stored(op) ==
    IF AttributesMap_is_empty(op.attributes) THEN None ELSE Some(op.attributes)

Op_attributes(op) ==
    IF op.kind = "delete" THEN None
    ELSE IF AttributesMap_is_empty(op.attributes) THEN None
    ELSE Some(op.attributes)

\* the outcome of a call: a value, a panic, or an Err value
Ok(x) == [tag |-> "Ok", val |-> x]
Panic == [tag |-> "Panic", val |-> <<>>]
Err == [tag |-> "Err", val |-> <<>>]

Op_value_as_string(op) ==
    IF op.kind = "insert"
    THEN IF op.value.t = "String" THEN Ok(op.value.v) ELSE Panic
    ELSE Panic

\* Op { kind, attributes } with any field values
OpOf(kind, value, attrs) == [kind |-> kind, value |-> value, attributes |-> attrs]

\* attributes: Option<AttributesMap> as stored by the constructors
stored_attributes(attributes) ==
    IF attributes # None THEN attributes[1] ELSE AttributesMap_new

\* Op::insert without its check
Op_insert_any(object, attributes) ==
    Ok(OpInsert(object, stored_attributes(attributes)))

Op_insert(object, attributes) ==
    IF /\ object.t # "String"
       /\ attributes # None
       /\ ~AttributesMap_is_empty(attributes[1])
    THEN Panic
    ELSE Ok(OpInsert(object, stored_attributes(attributes)))

Op_try_insert(object, attributes) ==
    IF /\ object.t # "String"
       /\ attributes # None
       /\ ~AttributesMap_is_empty(attributes[1])
    THEN Err
    ELSE Ok(OpInsert(object, stored_attributes(attributes)))

\* Op::retain without its assertion
Op_retain_unchecked(length, attributes) ==
    Ok(OpRetain(length, stored_attributes(attributes)))

Op_retain(length, attributes) ==
    IF length = 0 THEN Panic
    ELSE Ok(OpRetain(length, stored_attributes(attributes)))

Op_delete(length) ==
    IF length = 0 THEN Panic ELSE Ok(OpDelete(length))

\* usize::MAX, at the width of the model's integers
USIZE_MAX == 2147483647

Op_retain_until_end == Op_retain(USIZE_MAX, None)

\* a character that UTF-8 encodes in two bytes
E_ACUTE == "é"

Utf8Width(ch) == IF ch = E_ACUTE THEN 2 ELSE 1

\* str::len: the length in bytes
RECURSIVE str_len(_)
str_len(s) == IF s = <<>> THEN 0 ELSE Utf8Width(Head(s)) + str_len(Tail(s))

Op_len(op) ==
    IF op.kind = "insert"
    THEN IF op.value.t = "String" THEN str_len(op.value.v) ELSE 1
    ELSE op.value.v

\* Op::value handing out whatever is stored
Op_value_lenient(op) == Ok(op.value)

Op_value(op) == IF op.kind = "insert" THEN Ok(op.value) ELSE Panic

\* serde's derived Deserialize for Op, on a JSON object with one key besides
\* the optional "attributes": the key names the variant, a span is any usize,
\* a missing "attributes" is the empty map; no constructor is called
Op_deserialize(json) ==
    IF json.key = "insert"
    THEN Ok(OpOf("insert", json.value, stored_attributes(json.attributes)))
    ELSE IF json.key \in {"retain", "delete"}
         THEN IF json.value.t = "Number" /\ json.value.v >= 0
              THEN Ok(OpOf(json.key, json.value, stored_attributes(json.attributes)))
              ELSE Err
         ELSE Err

(***************************************************************************)
(* renderer.rs: LineVisitor and OpVistorCtx.                               *)
(***************************************************************************)
NewLine(str, op) == [tag |-> "NewLine", str |-> str, op |-> op]
Inline(str, op) == [tag |-> "Inline", str |-> str, op |-> op]

\* `panic` is not a field: it records that a call on the context panicked
OpVistorCtx_new(delta) ==
    [ops |-> delta, insert_index |-> 0, inline_buf |-> <<>>, current |-> None,
     panic |-> FALSE]

has_inline(c) == c.inline_buf # <<>>

append_inline(c, str) == [c EXCEPT !.inline_buf = c.inline_buf \o str]

\* write! without its `?`: a failed append is not returned, the next one proceeds
write_unchecked(d, str) ==
    IF d.writes + 1 = fail_at
    THEN [d EXCEPT !.writes = d.writes + 1]
    ELSE [d EXCEPT !.writes = d.writes + 1, !.out = d.out \o str]

\* The sink is [out, writes, failed]: the text appended, the number of
\* appends asked of it, and whether one of them failed.  write!(dest, ..)?:
\* the append numbered fail_at fails (none when fail_at = 0), and after a
\* failure the `?` has returned, so nothing more is appended.
write(d, str) ==
    IF d.failed THEN d
    ELSE IF d.writes + 1 = fail_at
         THEN [d EXCEPT !.writes = d.writes + 1, !.failed = TRUE]
         ELSE [d EXCEPT !.writes = d.writes + 1, !.out = d.out \o str]

\* flush_inline without its clear()
flush_inline_keeping(c, d) ==
    IF c.inline_buf # <<>> /\ ~d.failed
    THEN [ctx |-> c, dest |-> write(d, c.inline_buf)]
    ELSE [ctx |-> c, dest |-> d]

\* returns the context and the sink after the flush; the buffer is cleared
\* only after its append succeeded
flush_inline(c, d) ==
    IF c.inline_buf # <<>> /\ ~d.failed
    THEN LET w == write(d, c.inline_buf) IN
         IF w.failed THEN [ctx |-> c, dest |-> w]
         ELSE [ctx |-> [c EXCEPT !.inline_buf = <<>>], dest |-> w]
    ELSE [ctx |-> c, dest |-> d]

\* next() with the newline left unconsumed: insert_index += r.len()
RECURSIVE OpVistorCtx_next_newline_kept(_)
OpVistorCtx_next_newline_kept(c) ==
    IF c.ops = <<>> THEN [c EXCEPT !.current = None]
    ELSE LET op == c.ops[Len(c.ops)]
             rest == [c EXCEPT !.ops = SubSeq(c.ops, 1, Len(c.ops) - 1),
                               !.insert_index = 0]
         IN
         IF Op_is_text_insert(op)
         THEN LET v == Op_value_as_string(op) IN
              IF v.tag = "Panic" THEN [c EXCEPT !.current = None, !.panic = TRUE]
              ELSE LET str == v.val IN
                   IF c.insert_index < Len(str)
                   THEN IF ~Contains(str, NL)
                        THEN [c EXCEPT !.insert_index = Len(str),
                                       !.current = Some(Inline(str, op))]
                        ELSE LET r == SplitFirst(SubSeq(str, c.insert_index + 1,
                                                        Len(str)))
                             IN  [c EXCEPT !.insert_index = c.insert_index + Len(r),
                                           !.current = Some(NewLine(r, op))]
                   ELSE OpVistorCtx_next_newline_kept(rest)
         ELSE OpVistorCtx_next_newline_kept(rest)

\* next() ending the stream at an op it should skip
RECURSIVE OpVistorCtx_next_stopping(_)
OpVistorCtx_next_stopping(c) ==
    IF c.ops = <<>> THEN [c EXCEPT !.current = None]
    ELSE LET op == c.ops[Len(c.ops)]
             rest == [c EXCEPT !.ops = SubSeq(c.ops, 1, Len(c.ops) - 1),
                               !.insert_index = 0]
         IN
         IF Op_is_text_insert(op) /\ op.value.v # <<>>
         THEN LET str == op.value.v IN
              IF c.insert_index < Len(str)
              THEN IF ~Contains(str, NL)
                   THEN [c EXCEPT !.insert_index = Len(str),
                                  !.current = Some(Inline(str, op))]
                   ELSE LET r == SplitFirst(SubSeq(str, c.insert_index + 1,
                                                   Len(str)))
                        IN  [c EXCEPT !.insert_index = c.insert_index + Len(r) + 1,
                                      !.current = Some(NewLine(r, op))]
              ELSE OpVistorCtx_next_stopping(rest)
         ELSE [c EXCEPT !.current = None]

\* The scan loop of next().  The remaining ops are consumed from the END of
\* the slice (ops.last() / split_last()).  str[i..].split('\n').next() is
\* always Some, so the arm of lines 76-82 cannot be taken.
RECURSIVE OpVistorCtx_next(_)
OpVistorCtx_next(c) ==
    IF c.ops = <<>> THEN [c EXCEPT !.current = None]
    ELSE LET op == c.ops[Len(c.ops)]
             rest == [c EXCEPT !.ops = SubSeq(c.ops, 1, Len(c.ops) - 1),
                               !.insert_index = 0]
         IN
         IF Op_is_text_insert(op)
         THEN LET v == Op_value_as_string(op) IN
              IF v.tag = "Panic" THEN [c EXCEPT !.current = None, !.panic = TRUE]
              ELSE LET str == v.val IN
                   IF c.insert_index < Len(str)
                   THEN IF ~Contains(str, NL)
                        THEN [c EXCEPT !.insert_index = Len(str),
                                       !.current = Some(Inline(str, op))]
                        ELSE LET r == SplitFirst(SubSeq(str, c.insert_index + 1,
                                                        Len(str)))
                             IN  [c EXCEPT !.insert_index = c.insert_index + Len(r) + 1,
                                           !.current = Some(NewLine(r, op))]
                   ELSE OpVistorCtx_next(rest)
         ELSE OpVistorCtx_next(rest)

\* current() advancing on every call
OpVistorCtx_current_advancing(c) == OpVistorCtx_next(c)

OpVistorCtx_current(c) ==
    IF c.current = None THEN OpVistorCtx_next(c) ELSE c

(***************************************************************************)
(* renderer.rs: the block and inline handlers of DeltaHTML::write_into.    *)
(***************************************************************************)
ordered == <<"o", "r", "d", "e", "r", "e", "d">>
bullet == <<"b", "u", "l", "l", "e", "t">>

\* get_list_tag without the `_ => None` arm: any string names a list
get_list_tag_any_string(op) ==
    LET a == Op_attributes(op) IN
    IF a = None THEN None
    ELSE LET l == AttributesMap_get(a[1], "list") IN
         IF l # None /\ l[1].t = "String"
         THEN IF l[1].v = ordered THEN Some("Ordered") ELSE Some("Bullet")
         ELSE None

get_list_tag(op) ==
    LET a == Op_attributes(op) IN
    IF a = None THEN None
    ELSE LET l == AttributesMap_get(a[1], "list") IN
         IF l # None /\ l[1].t = "String"
         THEN IF l[1].v = ordered THEN Some("Ordered")
              ELSE IF l[1].v = bullet THEN Some("Bullet")
              ELSE None
         ELSE None

\* the level vistor_header finds (lines 177-180): Some(min(6, l)) for a
\* numeric header value that is a u64, None when the handler does not claim
header_level(op) ==
    LET a == Op_attributes(op) IN
    IF a = None THEN None
    ELSE LET h == AttributesMap_get(a[1], "header") IN
         IF h # None /\ h[1].t = "Number"
         THEN LET l == as_u64(h[1].v) IN
              IF l # None THEN Some(IF 6 < l[1] THEN 6 ELSE l[1]) ELSE None
         ELSE None

\* `if let Some(Value::Bool(b)) = attrs.get(key) { flag = *b }`, else false
inline_flag(op, key) ==
    LET a == Op_attributes(op) IN
    IF a = None THEN FALSE
    ELSE LET f == AttributesMap_get(a[1], key) IN
         IF f # None /\ f[1].t = "Bool" THEN f[1].v ELSE FALSE

\* the array `tags` of inline_vistor
inline_tags(op) ==
    << [name |-> <<"b">>, enabled |-> inline_flag(op, "bold")],
       [name |-> <<"e", "m">>, enabled |-> inline_flag(op, "italic")],
       [name |-> <<"u">>, enabled |-> inline_flag(op, "underline")],
       [name |-> <<"s">>, enabled |-> inline_flag(op, "strike")] >>

open_tag(name) == <<"<">> \o name \o <<">">>
close_tag(name) == <<"<", "/">> \o name \o <<">">>

\* the opening tags written in the array's own order (no .rev())
RECURSIVE open_tags_forward(_, _)
open_tags_forward(tags, i) ==
    IF i = 0 THEN <<>>
    ELSE open_tags_forward(tags, i - 1)
         \o (IF tags[i].enabled THEN open_tag(tags[i].name) ELSE <<>>)

\* for tag in tags.iter().rev(): the opening tags of tags[1..i], last first
RECURSIVE open_tags(_, _)
open_tags(tags, i) ==
    IF i = 0 THEN <<>>
    ELSE (IF tags[i].enabled THEN open_tag(tags[i].name) ELSE <<>>)
         \o open_tags(tags, i - 1)

\* for tag in tags.iter(): the closing tags of tags[i..], first first
RECURSIVE close_tags(_, _)
close_tags(tags, i) ==
    IF i > Len(tags) THEN <<>>
    ELSE (IF tags[i].enabled THEN close_tag(tags[i].name) ELSE <<>>)
         \o close_tags(tags, i + 1)

inline_vistor(c, op, str) ==
    LET tags == inline_tags(op) IN
    append_inline(append_inline(append_inline(c, open_tags(tags, Len(tags))), str),
                  close_tags(tags, 1))

P_OPEN == <<"<", "p", ">">>
P_CLOSE == <<"<", "/", "p", ">">>
UL_OPEN == <<"<", "u", "l", ">">>
UL_CLOSE == <<"<", "/", "u", "l", ">">>
LI_OPEN == <<"<", "l", "i", ">">>
LI_CLOSE == <<"<", "/", "l", "i", ">">>
H_OPEN(l) == <<"<", "h">> \o FormatU64(l) \o <<">">>
H_CLOSE(l) == <<"<", "/", "h">> \o FormatU64(l) \o <<">">>

\* write!(open); flush_inline; write!(str); write!(close)
write_block(c, d, open, str, close) ==
    LET f == flush_inline(c, write(d, open)) IN
    [ctx |-> f.ctx, dest |-> write(write(f.dest, str), close)]

\* visitor.next() after a handler's writes: not reached when a write failed
next_after(w) == IF w.dest.failed THEN w.ctx ELSE OpVistorCtx_next(w.ctx)

(***************************************************************************)
(* The state of one render: the OpVistorCtx fields, the sink and the       *)
(* position of walk_visitor / vistor_list.                                 *)
(***************************************************************************)
visitors ==
    [ops |-> ops, insert_index |-> insert_index, inline_buf |-> inline_buf,
     current |-> current, panic |-> FALSE]

sink == [out |-> dest, writes |-> writes, failed |-> FALSE]

\* the context and the sink become c and d; control goes to p, unless a call
\* panicked (the render unwinds) or an append failed (write_into returns Err)
Goto(c, d, p) ==
    /\ ops' = c.ops
    /\ insert_index' = c.insert_index
    /\ inline_buf' = c.inline_buf
    /\ current' = c.current
    /\ dest' = d.out
    /\ writes' = d.writes
    /\ pc' = IF c.panic THEN "panic" ELSE IF d.failed THEN "failed" ELSE p
    /\ UNCHANGED <<input, fail_at, prev, api>>

\* walk_visitor, Inline arm: accumulate, then advance
walk_visitor_inline ==
    /\ pc = "walk"
    /\ LET c == OpVistorCtx_current(visitors) IN
       /\ c.current # None
       /\ c.current[1].tag = "Inline"
       /\ Goto(OpVistorCtx_next(inline_vistor(c, c.current[1].op, c.current[1].str)),
               sink, "walk")

\* vistor_list up to the head of its loop: the handler claims the line and
\* opens the container
vistor_list_claim ==
    /\ pc = "walk"
    /\ LET c == OpVistorCtx_current(visitors) IN
       /\ c.current # None
       /\ c.current[1].tag = "NewLine"
       /\ get_list_tag(c.current[1].op) # None
       /\ Goto(c, write(sink, UL_OPEN), "list")

\* one turn of vistor_list's loop on a line that carries a list tag
vistor_list_item ==
    /\ pc = "list"
    /\ LET c == OpVistorCtx_next(visitors) IN
       /\ c.current # None
       /\ c.current[1].tag = "NewLine"
       /\ get_list_tag(c.current[1].op) # None
       /\ LET w == write_block(c, sink, LI_OPEN, c.current[1].str, LI_CLOSE) IN
          Goto(w.ctx, w.dest, "list")

\* one turn of vistor_list's loop on an inline segment
vistor_list_inline ==
    /\ pc = "list"
    /\ LET c == OpVistorCtx_next(visitors) IN
       /\ c.current # None
       /\ c.current[1].tag = "Inline"
       /\ Goto(inline_vistor(c, c.current[1].op, c.current[1].str), sink, "list")

\* the end of vistor_list's loop with the terminating line consumed: the
\* slot is emptied, so the main loop's current() advances past it
vistor_list_end_consuming ==
    /\ pc = "list"
    /\ LET c == OpVistorCtx_next(visitors) IN
       /\ \/ c.current = None
          \/ /\ c.current # None
             /\ c.current[1].tag = "NewLine"
             /\ get_list_tag(c.current[1].op) = None
       /\ Goto([c EXCEPT !.current = None],
               IF c.panic THEN sink ELSE write(sink, UL_CLOSE), "walk")

\* the end of vistor_list's loop without the closing tag
vistor_list_end_unclosed ==
    /\ pc = "list"
    /\ LET c == OpVistorCtx_next(visitors) IN
       /\ \/ c.current = None
          \/ /\ c.current # None
             /\ c.current[1].tag = "NewLine"
             /\ get_list_tag(c.current[1].op) = None
       /\ Goto(c, sink, "walk")

\* vistor_list's loop ends (no segment, or a line without list tag): the
\* container is closed and the handler returns true
vistor_list_end ==
    /\ pc = "list"
    /\ LET c == OpVistorCtx_next(visitors) IN
       /\ \/ c.current = None
          \/ /\ c.current # None
             /\ c.current[1].tag = "NewLine"
             /\ get_list_tag(c.current[1].op) = None
       /\ Goto(c, IF c.panic THEN sink ELSE write(sink, UL_CLOSE), "walk")

\* vistor_header followed by the advance at the foot of the main loop
vistor_header_twice ==
    /\ pc = "walk"
    /\ LET c == OpVistorCtx_current(visitors) IN
       /\ c.current # None
       /\ c.current[1].tag = "NewLine"
       /\ get_list_tag(c.current[1].op) = None
       /\ header_level(c.current[1].op) # None
       /\ LET l == header_level(c.current[1].op)[1]
              w == write_block(c, sink, H_OPEN(l), c.current[1].str, H_CLOSE(l))
          IN  Goto(OpVistorCtx_next(next_after(w)), w.dest, "walk")

\* vistor_header claims the line vistor_list rejected
vistor_header ==
    /\ pc = "walk"
    /\ LET c == OpVistorCtx_current(visitors) IN
       /\ c.current # None
       /\ c.current[1].tag = "NewLine"
       /\ get_list_tag(c.current[1].op) = None
       /\ header_level(c.current[1].op) # None
       /\ LET l == header_level(c.current[1].op)[1]
              w == write_block(c, sink, H_OPEN(l), c.current[1].str, H_CLOSE(l))
          IN  Goto(next_after(w), w.dest, "walk")

\* the paragraph arm without the advance at the foot of the loop
walk_visitor_paragraph_stuck ==
    /\ pc = "walk"
    /\ LET c == OpVistorCtx_current(visitors) IN
       /\ c.current # None
       /\ c.current[1].tag = "NewLine"
       /\ get_list_tag(c.current[1].op) = None
       /\ header_level(c.current[1].op) = None
       /\ LET w == write_block(c, sink, P_OPEN, c.current[1].str, P_CLOSE) IN
          Goto(w.ctx, w.dest, "walk")

\* walk_visitor, NewLine arm after both handlers rejected: a paragraph
walk_visitor_paragraph ==
    /\ pc = "walk"
    /\ LET c == OpVistorCtx_current(visitors) IN
       /\ c.current # None
       /\ c.current[1].tag = "NewLine"
       /\ get_list_tag(c.current[1].op) = None
       /\ header_level(c.current[1].op) = None
       /\ LET w == write_block(c, sink, P_OPEN, c.current[1].str, P_CLOSE) IN
          Goto(next_after(w), w.dest, "walk")

\* the end of walk_visitor with the trailing text flushed outside any element
walk_visitor_end_unwrapped ==
    /\ pc = "walk"
    /\ LET c == OpVistorCtx_current(visitors) IN
       /\ c.current = None
       /\ LET f == flush_inline(c, sink) IN Goto(f.ctx, f.dest, "done")

\* walk_visitor after its loop: the trailing inline text becomes a paragraph
walk_visitor_end ==
    /\ pc = "walk"
    /\ LET c == OpVistorCtx_current(visitors) IN
       /\ c.current = None
       /\ IF has_inline(c) /\ ~c.panic
          THEN LET f == flush_inline(c, write(sink, P_OPEN)) IN
               Goto(f.ctx, write(f.dest, P_CLOSE), "done")
          ELSE Goto(c, sink, "done")

(***************************************************************************)
(* The Deltas rendered.  Three families: one insert with every ordering    *)
(* of the inline flags; one insert of every text up to MaxLen with a       *)
(* block attribute map; sequences of up to MaxOps ops of a mixed set.      *)
(***************************************************************************)
RECURSIVE TextsOfLen(_)
TextsOfLen(n) ==
    IF n = 0 THEN {<<>>}
    ELSE {<<ch>> \o t : ch \in Chars, t \in TextsOfLen(n - 1)}

Texts == UNION {TextsOfLen(n) : n \in 0..MaxLen}

FlagKeys == {"bold", "italic", "underline", "strike"}

\* every declaration order of every subset of the flags, each true or false
FlagMaps ==
    UNION {{m \in [1..n -> FlagKeys \X {VBool(TRUE), VBool(FALSE)}] :
              \A i, j \in 1..n : m[i][1] = m[j][1] => i = j} : n \in 0..4}

invalid == <<"i", "n", "v", "a", "l", "i", "d">>

ListValues ==
    {VString(ordered), VString(bullet), VString(invalid), VString(<<>>),
     VBool(TRUE), VNumber(1)}

HeaderValues ==
    {VNumber(h) : h \in 0..MaxHeader}
    \cup {VNumber(0 - 1), VString(<<"2">>), VBool(TRUE), VObject}

\* block attribute maps: none, a list value, a header value, both (in either
\* declaration order), and a block attribute beside an inline flag
BlockMaps ==
    {AttributesMap_new}
    \cup {<< <<"list", l>> >> : l \in ListValues}
    \cup {<< <<"header", h>> >> : h \in HeaderValues}
    \cup {<< <<"list", l>>, <<"header", h>> >> :
            l \in {VString(bullet), VString(invalid)},
            h \in {VNumber(1), VNumber(MaxHeader), VString(<<"2">>)}}
    \cup {<< <<"header", VNumber(2)>>, <<"list", VString(ordered)>> >>,
          << <<"bold", VBool(TRUE)>>, <<"list", VString(bullet)>> >>,
          << <<"header", VNumber(3)>>, <<"italic", VBool(TRUE)>> >>,
          << <<"bold", VString(<<"x">>)>> >>}

FlagDeltas ==
    {<<OpInsert(VString(t), m)>> : t \in {<<"x">>, <<"x", NL>>}, m \in FlagMaps}

BlockDeltas == {<<OpInsert(VString(t), m)>> : t \in Texts, m \in BlockMaps}

MixedOps ==
    {OpInsert(VString(<<"x">>), AttributesMap_new),
     OpInsert(VString(<<"y">>), << <<"bold", VBool(TRUE)>> >>),
     OpInsert(VString(<<"x", NL>>), AttributesMap_new),
     OpInsert(VString(<<"y", NL, "x">>), AttributesMap_new),
     OpInsert(VString(<<"x", NL>>), << <<"list", VString(bullet)>> >>),
     OpInsert(VString(<<"y", NL>>), << <<"list", VString(ordered)>> >>),
     OpInsert(VString(<<"x", NL, "y", NL>>), << <<"list", VString(bullet)>> >>),
     OpInsert(VString(<<"y", NL>>), << <<"list", VString(invalid)>> >>),
     OpInsert(VString(<<"x", NL>>), << <<"header", VNumber(2)>> >>),
     OpInsert(VString(<<"y", NL>>), << <<"header", VString(<<"2">>)>> >>),
     OpInsert(VString(<<"y", NL>>),
              << <<"list", VString(bullet)>>, <<"header", VNumber(1)>> >>),
     OpInsert(VString(<<>>), AttributesMap_new),
     OpInsert(VObject, AttributesMap_new),
     OpRetain(1, << <<"bold", VBool(TRUE)>> >>),
     OpDelete(1)}

MixedDeltas == UNION {[1..n -> MixedOps] : n \in 0..MaxOps}

Deltas == FlagDeltas \cup BlockDeltas \cup MixedDeltas

\* no call on an Op is in progress
ApiIdle == [fn |-> "none"]

(***************************************************************************)
(* DeltaHTML::write_into on a fresh context and an empty sink that never   *)
(* fails.                                                                  *)
(***************************************************************************)
Init ==
    /\ input \in Deltas
    /\ LET c == OpVistorCtx_new(input) IN
       /\ ops = c.ops
       /\ insert_index = c.insert_index
       /\ inline_buf = c.inline_buf
       /\ current = c.current
    /\ dest = <<>>
    /\ writes = 0
    /\ fail_at = 0
    /\ prev = None
    /\ api = ApiIdle
    /\ pc = "walk"

Next ==
    \/ walk_visitor_inline
    \/ vistor_list_claim
    \/ vistor_list_item
    \/ vistor_list_inline
    \/ vistor_list_end
    \/ vistor_header
    \/ walk_visitor_paragraph
    \/ walk_visitor_end

Spec == Init /\ [][Next]_vars

(***************************************************************************)
(* write_into on a sink whose append numbered fail_at fails (fail_at = 0:  *)
(* the sink never fails).                                                  *)
(***************************************************************************)
SinkDeltas == UNION {[1..n -> MixedOps] : n \in 0..MaxSinkOps}

InitSink ==
    /\ input \in SinkDeltas
    /\ fail_at \in 0..MaxFail
    /\ LET c == OpVistorCtx_new(input) IN
       /\ ops = c.ops
       /\ insert_index = c.insert_index
       /\ inline_buf = c.inline_buf
       /\ current = c.current
    /\ dest = <<>>
    /\ writes = 0
    /\ prev = None
    /\ api = ApiIdle
    /\ pc = "walk"

SpecSink == InitSink /\ [][Next]_vars

(***************************************************************************)
(* Two renders of one DeltaHTML: write_into(&self, ..) is called again     *)
(* with a fresh sink once the first call returned; prev keeps what the     *)
(* first call wrote.                                                       *)
(***************************************************************************)
\* the second call going on with the context the first call left behind
write_into_again_stale ==
    /\ pc = "done"
    /\ prev = None
    /\ prev' = Some(dest)
    /\ dest' = <<>>
    /\ writes' = 0
    /\ pc' = "walk"
    /\ UNCHANGED <<input, ops, insert_index, inline_buf, current, fail_at, api>>

write_into_again ==
    /\ pc = "done"
    /\ prev = None
    /\ prev' = Some(dest)
    /\ LET c == OpVistorCtx_new(input) IN
       /\ ops' = c.ops
       /\ insert_index' = c.insert_index
       /\ inline_buf' = c.inline_buf
       /\ current' = c.current
    /\ dest' = <<>>
    /\ writes' = 0
    /\ pc' = "walk"
    /\ UNCHANGED <<input, fail_at, api>>

NextTwice ==
    \/ Next
    \/ write_into_again

SpecTwice == Init /\ [][NextTwice]_vars

(***************************************************************************)
(* Two renders, the second of the same ops without those the segmenter     *)
(* skips; prev keeps what the first wrote.                                 *)
(***************************************************************************)
\* an op that yields no segment: no text insert, or an insert of ""
Skipped(op) == ~Op_is_text_insert(op) \/ op.value.v = <<>>

Stripped(delta) == SelectSeq(delta, LAMBDA op : ~Skipped(op))

write_into_stripped ==
    /\ pc = "done"
    /\ prev = None
    /\ prev' = Some(dest)
    /\ LET c == OpVistorCtx_new(Stripped(input)) IN
       /\ ops' = c.ops
       /\ insert_index' = c.insert_index
       /\ inline_buf' = c.inline_buf
       /\ current' = c.current
    /\ dest' = <<>>
    /\ writes' = 0
    /\ pc' = "walk"
    /\ UNCHANGED <<input, fail_at, api>>

NextStripped ==
    \/ Next
    \/ write_into_stripped

SpecStripped == Init /\ [][NextStripped]_vars

(***************************************************************************)
(* The segmenter on its own: a caller holds an OpVistorCtx over some ops   *)
(* and calls current(), next() and append_inline() in any order.  api      *)
(* holds the last call, what it returned and the number of calls so far.   *)
(***************************************************************************)
CtxCalled(fn, c) ==
    /\ api' = [fn |-> fn, ret |-> c.current, n |-> api.n + 1]
    /\ ops' = c.ops
    /\ insert_index' = c.insert_index
    /\ inline_buf' = c.inline_buf
    /\ current' = c.current
    /\ UNCHANGED <<input, dest, pc, writes, fail_at, prev>>

ctx_current ==
    /\ pc = "ctx"
    /\ api.n < MaxCalls
    /\ CtxCalled("current", OpVistorCtx_current(visitors))

ctx_next ==
    /\ pc = "ctx"
    /\ api.n < MaxCalls
    /\ CtxCalled("next", OpVistorCtx_next(visitors))

\* append_inline of the segment in the slot, as inline_vistor does with no
\* flag set
ctx_append_inline ==
    /\ pc = "ctx"
    /\ api.n < MaxCalls
    /\ current # None
    /\ CtxCalled("append_inline", append_inline(visitors, current[1].str))

InitCtx ==
    /\ input \in SinkDeltas
    /\ LET c == OpVistorCtx_new(input) IN
       /\ ops = c.ops
       /\ insert_index = c.insert_index
       /\ inline_buf = c.inline_buf
       /\ current = c.current
    /\ dest = <<>>
    /\ writes = 0
    /\ fail_at = 0
    /\ prev = None
    /\ api = [fn |-> "new", ret |-> None, n |-> 0]
    /\ pc = "ctx"

NextCtx ==
    \/ ctx_current
    \/ ctx_next
    \/ ctx_append_inline

SpecCtx == InitCtx /\ [][NextCtx]_vars

(***************************************************************************)
(* The Op API: one Op is built by a constructor or by deserialization,     *)
(* then one accessor is called on it.  api holds the call, its arguments   *)
(* and its outcome, then the accessor and what it returned.                *)
(***************************************************************************)
ApiChars == {"x", NL, E_ACUTE}

ApiTexts == UNION {[1..n -> ApiChars] : n \in 0..MaxApiLen}

ApiValues ==
    {VString(t) : t \in ApiTexts} \cup {VObject, VNumber(1), VBool(TRUE)}

ApiAttributes ==
    {None, Some(AttributesMap_new), Some(<<<<"bold", VBool(TRUE)>>>>),
     Some(<<<<"list", VString(bullet)>>, <<"bold", VBool(FALSE)>>>>)}

ApiLengths == 0..MaxSpan

ApiJsons ==
    [key : {"insert", "retain", "delete", "other"},
     value : ApiValues \cup {VNumber(n) : n \in (0 - 1)..MaxSpan},
     attributes : ApiAttributes]

\* no Op was built yet
NoOp ==
    /\ pc = "api"
    /\ api.fn = "none"

Built(fn, args, result) ==
    /\ api' = [fn |-> fn, args |-> args, result |-> result,
               method |-> "none", ret |-> Panic]
    /\ UNCHANGED <<input, ops, insert_index, current, inline_buf, dest, pc,
                   writes, fail_at, prev>>

Called(method, ret) ==
    /\ api' = [api EXCEPT !.method = method, !.ret = ret]
    /\ UNCHANGED <<input, ops, insert_index, current, inline_buf, dest, pc,
                   writes, fail_at, prev>>

\* an Op was built and no accessor was called on it yet
HasOp ==
    /\ pc = "api"
    /\ api.fn # "none"
    /\ api.result.tag = "Ok"
    /\ api.method = "none"

call_insert ==
    /\ NoOp
    /\ \E object \in ApiValues, attributes \in ApiAttributes :
           Built("insert", [object |-> object, attributes |-> attributes],
                 Op_insert(object, attributes))

call_try_insert ==
    /\ NoOp
    /\ \E object \in ApiValues, attributes \in ApiAttributes :
           Built("try_insert", [object |-> object, attributes |-> attributes],
                 Op_try_insert(object, attributes))

call_retain ==
    /\ NoOp
    /\ \E length \in ApiLengths, attributes \in ApiAttributes :
           Built("retain", [length |-> length, attributes |-> attributes],
                 Op_retain(length, attributes))

call_delete ==
    /\ NoOp
    /\ \E length \in ApiLengths :
           Built("delete", [length |-> length], Op_delete(length))

call_retain_until_end ==
    /\ NoOp
    /\ Built("retain_until_end", <<>>, Op_retain_until_end)

call_deserialize ==
    /\ NoOp
    /\ \E json \in ApiJsons :
           Built("deserialize", [json |-> json], Op_deserialize(json))

call_len ==
    /\ HasOp
    /\ Called("len", Ok(Op_len(api.result.val)))

call_attributes ==
    /\ HasOp
    /\ Called("attributes", Ok(Op_attributes(api.result.val)))

call_value ==
    /\ HasOp
    /\ Called("value", Op_value(api.result.val))

call_value_as_string ==
    /\ HasOp
    /\ Called("value_as_string", Op_value_as_string(api.result.val))

InitOp ==
    /\ input = <<>>
    /\ ops = <<>>
    /\ insert_index = 0
    /\ inline_buf = <<>>
    /\ current = None
    /\ dest = <<>>
    /\ writes = 0
    /\ fail_at = 0
    /\ prev = None
    /\ api = ApiIdle
    /\ pc = "api"

NextOp ==
    \/ call_insert
    \/ call_try_insert
    \/ call_retain
    \/ call_delete
    \/ call_retain_until_end
    \/ call_deserialize
    \/ call_len
    \/ call_attributes
    \/ call_value
    \/ call_value_as_string

SpecOp == InitOp /\ [][NextOp]_vars

(***************************************************************************)
(* Vocabulary of the properties.                                           *)
(***************************************************************************)
IsPrefix(a, b) == Len(a) <= Len(b) /\ SubSeq(b, 1, Len(a)) = a

EndsWith(a, suf) ==
    Len(suf) <= Len(a) /\ SubSeq(a, Len(a) - Len(suf) + 1, Len(a)) = suf

Done == pc = "done"

\* the segment the next step of the loop at pc dispatches (None at the end)
Pending ==
    IF pc = "walk" THEN OpVistorCtx_current(visitors).current
    ELSE IF pc = "list" THEN OpVistorCtx_next(visitors).current
    ELSE None

\* the Delta is one text insert with no attributes
SinglePlainInsert ==
    /\ Len(input) = 1
    /\ input[1].kind = "insert"
    /\ input[1].value.t = "String"
    /\ input[1].attributes = <<>>

\* read off the attribute list itself, entry by entry
HasEntry(op, key, val) ==
    \E i \in 1..Len(op.attributes) :
        /\ op.attributes[i][1] = key
        /\ op.attributes[i][2].t = val.t
        /\ op.attributes[i][2].v = val.v

HasKey(op, key) == \E i \in 1..Len(op.attributes) : op.attributes[i][1] = key

RecognizedList(op) ==
    HasEntry(op, "list", VString(ordered)) \/ HasEntry(op, "list", VString(bullet))

\* the header value is a non-negative integer
NumericHeader(op) ==
    \E i \in 1..Len(op.attributes) :
        /\ op.attributes[i][1] = "header"
        /\ op.attributes[i][2].t = "Number"
        /\ op.attributes[i][2].v >= 0

\* one element per newline-terminated line of s, plus one for a non-empty
\* unterminated tail; `line` is the line read so far
RECURSIVE ElementPerLine(_, _, _, _)
ElementPerLine(s, line, open, close) ==
    IF s = <<>> THEN (IF line = <<>> THEN <<>> ELSE open \o line \o close)
    ELSE IF Head(s) = NL
         THEN open \o line \o close \o ElementPerLine(Tail(s), <<>>, open, close)
         ELSE ElementPerLine(Tail(s), line \o <<Head(s)>>, open, close)

(***************************************************************************)
(* C1.  The text of the text inserts reaches the sink in document order:   *)
(* when op i precedes op j in the Delta and their texts share no           *)
(* character, every character of op i's text in the output stands before   *)
(* every character of op j's text.                                         *)
(***************************************************************************)
TextChars(op) ==
    IF Op_is_text_insert(op)
    THEN {op.value.v[k] : k \in 1..Len(op.value.v)} \ {NL}
    ELSE {}

C1_DocumentOrder ==
    \A i, j \in 1..Len(input) :
        (i < j /\ TextChars(input[i]) \cap TextChars(input[j]) = {}) =>
            \A p, q \in 1..Len(dest) :
                (dest[p] \in TextChars(input[i]) /\ dest[q] \in TextChars(input[j]))
                    => p < q

(***************************************************************************)
(* C2.  A single text insert without attributes whose text contains a      *)
(* newline renders as one <p>...</p> per line, in line order, without the  *)
(* newline characters and with nothing else: the sink always holds a       *)
(* prefix of that output, and holds all of it when the render is done.     *)
(***************************************************************************)
C2_OneParagraphPerLine ==
    (SinglePlainInsert /\ Contains(input[1].value.v, NL)) =>
        LET expected == ElementPerLine(input[1].value.v, <<>>, P_OPEN, P_CLOSE) IN
        /\ IsPrefix(dest, expected)
        /\ Done => dest = expected

C2_Witness ==
    /\ Done
    /\ input = <<OpInsert(VString(<<NL, NL, NL>>), AttributesMap_new)>>
    /\ dest = P_OPEN \o P_CLOSE \o P_OPEN \o P_CLOSE \o P_OPEN \o P_CLOSE

(***************************************************************************)
(* C3.  As claimed: a single plain text insert with no newline, whatever   *)
(* its text, renders as <p> text </p>.                                     *)
(***************************************************************************)
C3_AnyTextOneParagraph ==
    (Done /\ SinglePlainInsert /\ ~Contains(input[1].value.v, NL)) =>
        dest = P_OPEN \o input[1].value.v \o P_CLOSE

(***************************************************************************)
(* C3, amended.  A single plain text insert with no newline and a          *)
(* non-empty text renders as <p> text </p>; with the empty text nothing    *)
(* is written.                                                             *)
(***************************************************************************)
C3_NonEmptyTextOneParagraph ==
    (Done /\ SinglePlainInsert /\ ~Contains(input[1].value.v, NL)) =>
        dest = IF input[1].value.v = <<>> THEN <<>>
               ELSE P_OPEN \o input[1].value.v \o P_CLOSE

C3_Witness ==
    /\ Done
    /\ input = <<OpInsert(VString(<<"x", "y">>), AttributesMap_new)>>
    /\ dest = P_OPEN \o <<"x", "y">> \o P_CLOSE

(***************************************************************************)
(* C4.  An Inline segment is wrapped in the tag pairs of exactly its       *)
(* enabled flags, <s> outermost, then <u>, then <em>, then <b> innermost,  *)
(* closed in mirror order, whatever the order the attributes were          *)
(* declared in: the step that scans the segment appends that text to the   *)
(* pending buffer, and a Delta of one such insert renders as that text in  *)
(* one paragraph.                                                          *)
(***************************************************************************)
Enabled(op, key) == HasEntry(op, key, VBool(TRUE))

Wrap(on, name, s) ==
    IF on THEN <<"<">> \o name \o <<">">> \o s \o <<"<", "/">> \o name \o <<">">>
    ELSE s

NestedInline(op, str) ==
    Wrap(Enabled(op, "strike"), <<"s">>,
         Wrap(Enabled(op, "underline"), <<"u">>,
              Wrap(Enabled(op, "italic"), <<"e", "m">>,
                   Wrap(Enabled(op, "bold"), <<"b">>, str))))

C4_InlineNesting ==
    /\ [][(Pending # None /\ Pending[1].tag = "Inline") =>
             inline_buf' = inline_buf \o NestedInline(Pending[1].op, Pending[1].str)]_vars
    /\ [](  (Done /\ Len(input) = 1 /\ Op_is_text_insert(input[1])
             /\ input[1].value.v = <<"x">>)
          => dest = P_OPEN \o NestedInline(input[1], <<"x">>) \o P_CLOSE)

C4_Witness ==
    /\ Done
    /\ input = <<OpInsert(VString(<<"x">>),
                          << <<"bold", VBool(TRUE)>>, <<"strike", VBool(TRUE)>>,
                             <<"italic", VBool(TRUE)>>, <<"underline", VBool(TRUE)>> >>)>>
    /\ dest = P_OPEN \o <<"<", "s", ">", "<", "u", ">", "<", "e", "m", ">", "<", "b", ">",
                          "x",
                          "<", "/", "b", ">", "<", "/", "e", "m", ">", "<", "/", "u", ">",
                          "<", "/", "s", ">">> \o P_CLOSE

(***************************************************************************)
(* C5.  A run of n list lines renders as one <ul> holding n <li> items,    *)
(* the first line of the run included: a Delta of one insert whose only    *)
(* attribute is a recognized list value and whose text is n                *)
(* newline-terminated lines renders as <ul>, one <li>line</li> per line,   *)
(* </ul>.                                                                  *)
(***************************************************************************)
C5_ListHoldsEveryLine ==
    (/\ Done
     /\ Len(input) = 1
     /\ Op_is_text_insert(input[1])
     /\ Len(input[1].attributes) = 1
     /\ RecognizedList(input[1])
     /\ input[1].value.v # <<>>
     /\ input[1].value.v[Len(input[1].value.v)] = NL)
    => dest = UL_OPEN \o ElementPerLine(input[1].value.v, <<>>, LI_OPEN, LI_CLOSE)
                      \o UL_CLOSE

(***************************************************************************)
(* C6.  When the list loop ends on a line without a recognized list value, *)
(* the step writes </ul> and leaves that line in the slot with the cursor  *)
(* where producing it left it; the next step of the main loop writes that  *)
(* line, as a heading or a paragraph, right after the </ul> and moves the  *)
(* cursor on: the line is not dropped, not written twice, not a list item. *)
(***************************************************************************)
\* the heading or paragraph a line outside a list becomes
BlockElement(seg) ==
    IF NumericHeader(seg.op)
    THEN {H_OPEN(k) \o inline_buf \o seg.str \o H_CLOSE(k) : k \in 0..6}
    ELSE {P_OPEN \o inline_buf \o seg.str \o P_CLOSE}

\* the cursor has left the segment in the slot
CursorMoved ==
    \/ Len(ops') < Len(ops)
    \/ ops' = ops /\ insert_index' > insert_index
    \/ ops' = <<>> /\ current' = None

C6_ListEndRedispatch ==
    /\ [][(pc = "list" /\ Pending # None /\ Pending[1].tag = "NewLine"
           /\ ~RecognizedList(Pending[1].op))
          => /\ dest' = dest \o UL_CLOSE
             /\ pc' = "walk"
             /\ current' = Pending]_vars
    /\ [][(pc = "walk" /\ EndsWith(dest, UL_CLOSE) /\ current # None)
          => /\ current[1].tag = "NewLine"
             /\ ~RecognizedList(current[1].op)
             /\ \E e \in BlockElement(current[1]) : dest' = dest \o e
             /\ CursorMoved]_vars

C6_Witness ==
    /\ Done
    /\ input = <<OpInsert(VString(<<"x", NL>>), AttributesMap_new),
                 OpInsert(VString(<<"x", NL, "y", NL>>),
                          << <<"list", VString(bullet)>> >>)>>
    /\ EndsWith(dest, UL_CLOSE \o P_OPEN \o <<"x">> \o P_CLOSE)

(***************************************************************************)
(* C7.  Every Line segment is rendered by exactly one block handler, list  *)
(* before header before paragraph: the step that handles a line with a     *)
(* recognized list value writes it as a list item (after the <ul> when it  *)
(* opens the group), a line with a numeric header and no list value is     *)
(* written as a heading, every other line as a paragraph.                  *)
(***************************************************************************)
C7_OneHandlerPerLine ==
    [][(/\ Pending # None
        /\ Pending[1].tag = "NewLine"
        /\ pc = "walk" \/ RecognizedList(Pending[1].op))
       => LET seg == Pending[1]
              item == LI_OPEN \o inline_buf \o seg.str \o LI_CLOSE
          IN  IF RecognizedList(seg.op)
              THEN dest' = dest \o item \/ dest' = dest \o UL_OPEN \o item
              ELSE \E e \in BlockElement(seg) : dest' = dest \o e]_vars

(***************************************************************************)
(* C8.  Every heading tag in the output is one of h1..h6.                  *)
(***************************************************************************)
C8_HeadingLevelInRange ==
    \A i \in 1..Len(dest) :
        (i + 3 <= Len(dest) /\ dest[i + 1] = "h"
         /\ (dest[i] = "<" \/ (dest[i] = "/" /\ i > 1 /\ dest[i - 1] = "<")))
        => (dest[i + 2] \in {"1", "2", "3", "4", "5", "6"} /\ dest[i + 3] = ">")

(***************************************************************************)
(* C9.  A line whose header value is not a number, or whose list value is  *)
(* a string other than "ordered" and "bullet", and that has no valid block *)
(* attribute, is written as a paragraph and the render goes on: in the     *)
(* main loop the step writes <p>, the pending buffer, the line, </p> and   *)
(* stays in the loop; in the list loop the step only closes the list and   *)
(* hands the line to the main loop.                                        *)
(***************************************************************************)
Malformed(op) ==
    \/ \E i \in 1..Len(op.attributes) :
          op.attributes[i][1] = "header" /\ op.attributes[i][2].t # "Number"
    \/ \E i \in 1..Len(op.attributes) :
          /\ op.attributes[i][1] = "list"
          /\ op.attributes[i][2].t = "String"
          /\ op.attributes[i][2].v \notin {ordered, bullet}

MalformedLinePending ==
    /\ Pending # None
    /\ Pending[1].tag = "NewLine"
    /\ Malformed(Pending[1].op)
    /\ ~RecognizedList(Pending[1].op)
    /\ ~NumericHeader(Pending[1].op)

C9_MalformedIsParagraph ==
    /\ [][(pc = "walk" /\ MalformedLinePending)
          => /\ dest' = dest \o P_OPEN \o inline_buf \o Pending[1].str \o P_CLOSE
             /\ pc' = "walk"]_vars
    /\ [][(pc = "list" /\ MalformedLinePending)
          => /\ dest' = dest \o UL_CLOSE
             /\ pc' = "walk"
             /\ current' = Pending]_vars

C9_Witness ==
    /\ Done
    /\ input = <<OpInsert(VString(<<"y", NL>>), << <<"header", VString(<<"2">>)>> >>),
                 OpInsert(VString(<<"y", NL>>), << <<"list", VString(invalid)>> >>)>>
    /\ dest = P_OPEN \o <<"y">> \o P_CLOSE \o P_OPEN \o <<"y">> \o P_CLOSE

(***************************************************************************)
(* C10.  An Inline segment writes nothing and is appended to the pending   *)
(* buffer; every step in which a block handler takes a Line segment (the   *)
(* list handler claiming the first line of a group included) writes the    *)
(* buffer verbatim inside the line's element, before the line's text, and  *)
(* leaves it empty; the end of the stream writes a non-empty buffer as one *)
(* <p>...</p>.                                                             *)
(***************************************************************************)
C10_BufferFlushedAtLine ==
    /\ [][(Pending # None /\ Pending[1].tag = "Inline")
          => /\ dest' = dest
             /\ IsPrefix(inline_buf, inline_buf')
             /\ Len(inline_buf') >= Len(inline_buf) + Len(Pending[1].str)]_vars
    /\ [][(/\ Pending # None
           /\ Pending[1].tag = "NewLine"
           /\ pc = "walk" \/ RecognizedList(Pending[1].op)
           /\ inline_buf # <<>>)
          => /\ inline_buf' = <<>>
             /\ \E open \in {P_OPEN, LI_OPEN, UL_OPEN \o LI_OPEN}
                            \cup {H_OPEN(k) : k \in 0..6} :
                   IsPrefix(dest \o open \o inline_buf, dest')]_vars
    /\ [][(pc = "walk" /\ Pending = None)
          => /\ inline_buf' = <<>>
             /\ dest' = IF inline_buf = <<>> THEN dest
                        ELSE dest \o P_OPEN \o inline_buf \o P_CLOSE]_vars

(***************************************************************************)
(* C11.  The inline flags of a text insert are applied to its text also    *)
(* when the text ends with a newline: a Delta of one insert "x\n" whose    *)
(* attributes are inline flags renders as one paragraph holding the text   *)
(* wrapped in the tag pairs of the enabled flags.                          *)
(***************************************************************************)
C11_FlagsOnTerminatedText ==
    (/\ Done
     /\ Len(input) = 1
     /\ Op_is_text_insert(input[1])
     /\ input[1].value.v = <<"x", NL>>
     /\ \A i \in 1..Len(input[1].attributes) : input[1].attributes[i][1] \in FlagKeys)
    => dest = P_OPEN \o NestedInline(input[1], <<"x">>) \o P_CLOSE

(***************************************************************************)
(* C20.  The segmenter classifies by newline termination: a Line segment   *)
(* is text that a newline terminates in its owning insert (the cursor      *)
(* stands just past that newline), and text no newline terminates (a whole *)
(* text without newline, or the tail after the last newline) is an Inline  *)
(* segment holding just that text.                                         *)
(***************************************************************************)
\* the part of s after its last newline (all of s when it has none)
RECURSIVE TailAfterLastNewline(_)
TailAfterLastNewline(s) ==
    IF s = <<>> \/ s[Len(s)] = NL THEN <<>>
    ELSE TailAfterLastNewline(SubSeq(s, 1, Len(s) - 1)) \o <<s[Len(s)]>>

C20_LineIffTerminated ==
    current # None =>
        LET seg == current[1]
            text == seg.op.value.v
        IN  IF seg.tag = "NewLine"
            THEN /\ ~Contains(seg.str, NL)
                 /\ insert_index <= Len(text)
                 /\ text[insert_index] = NL
            ELSE /\ seg.str = TailAfterLastNewline(text)
                 /\ seg.str # <<>>
                 /\ insert_index = Len(text)

\* what a render still has to go through: the unread part of the ops, and
\* the handler it is in
RECURSIVE OpsSize(_)
OpsSize(os) ==
    IF os = <<>> THEN 0
    ELSE LET op == os[Len(os)] IN
         OpsSize(SubSeq(os, 1, Len(os) - 1))
         + (IF Op_is_text_insert(op) THEN Len(op.value.v) + 2 ELSE 2)

Remaining ==
    3 * (OpsSize(ops) - insert_index)
    + (IF pc = "walk" THEN 2 ELSE IF pc = "list" THEN 1 ELSE 0)

\* C19: rendering fails only because of the sink.  No call panics, whatever
\* the ops and attribute values; the render returns Err exactly at the append
\* that failed, with no append after it, and returns Ok otherwise, with every
\* op read; every step of a render brings its return nearer, and a render
\* that returned takes no further step.
C19_OnlySinkFails ==
    /\ [](pc # "panic")
    /\ [](pc = "failed" => fail_at # 0 /\ writes = fail_at)
    /\ [](pc = "done" => ops = <<>> /\ (fail_at = 0 \/ writes < fail_at))
    /\ [](fail_at = 0 \/ writes <= fail_at)
    /\ [][/\ pc \in {"walk", "list"}
          /\ Remaining' < Remaining
          /\ Remaining' >= 0
          /\ IsPrefix(dest, dest')]_vars

\* a render of an op sequence holding an op that is no text insert stopped at
\* a failed append that was not the first
C19_Witness ==
    /\ pc = "failed"
    /\ writes = fail_at
    /\ dest # <<>>
    /\ \E i \in 1..Len(input) : ~Op_is_text_insert(input[i])

BuiltOp == api.result.val

\* an accessor was called on the op that was built
Returned(method) == api.fn # "none" /\ api.method = method

\* C13: retain(0, attrs) and delete(0) produce no Op (they panic), for any
\* attrs; retain(n, attrs) and delete(n) with n > 0 yield an Op of that kind
\* whose len() is n; retain_until_end yields a Retain of the maximum length.
C13_SpanConstructors ==
    /\ api.fn \in {"retain", "delete"} =>
           IF api.args.length = 0
           THEN api.result = Panic
           ELSE /\ api.result.tag = "Ok"
                /\ BuiltOp.kind = api.fn
                /\ Op_len(BuiltOp) = api.args.length
    /\ api.fn = "retain_until_end" =>
           /\ api.result.tag = "Ok"
           /\ BuiltOp.kind = "retain"
           /\ Op_len(BuiltOp) = USIZE_MAX

\* retain(0, Some(non-empty attributes)) was called
C13_Witness ==
    /\ api.fn = "retain"
    /\ api.args.length = 0
    /\ api.args.attributes # None
    /\ api.args.attributes[1] # <<>>
    /\ api.result = Panic

\* C14: insert and try_insert reject exactly a non-text content with present,
\* non-empty attributes: insert panics, try_insert returns Err; in every
\* other case both return the same Op, holding the content and the attributes
\* given (the empty map for None).
C14_InsertConstructorsAgree ==
    api.fn \in {"insert", "try_insert"} =>
        LET object == api.args.object
            attributes == api.args.attributes
            rejected == /\ object.t # "String"
                        /\ attributes # None
                        /\ attributes[1] # <<>>
        IN  IF rejected
            THEN /\ api.fn = "insert" => api.result = Panic
                 /\ api.fn = "try_insert" => api.result = Err
            ELSE /\ api.result.tag = "Ok"
                 /\ BuiltOp.kind = "insert"
                 /\ BuiltOp.value = object
                 /\ BuiltOp.attributes = IF attributes = None THEN <<>> ELSE attributes[1]
                 /\ api.fn = "insert" => Op_try_insert(object, attributes) = api.result
                 /\ api.fn = "try_insert" => Op_insert(object, attributes) = api.result

\* try_insert returned Err
C14_Witness ==
    /\ api.fn = "try_insert"
    /\ api.args.object.t # "String"
    /\ api.result = Err

\* C15: attributes() is None when the op's map is empty and for every Delete;
\* it is Some(the stored map) for an Insert or Retain with a non-empty map,
\* whichever way the op was built.
C15_AttributesNoneWhenEmpty ==
    Returned("attributes") =>
        /\ api.ret.tag = "Ok"
        /\ BuiltOp.attributes = <<>> => api.ret.val = None
        /\ BuiltOp.kind = "delete" => api.ret.val = None
        /\ BuiltOp.kind \in {"insert", "retain"} /\ BuiltOp.attributes # <<>> =>
               api.ret.val = Some(BuiltOp.attributes)

\* attributes() was called on a deserialized Delete that carries a map
C15_Witness ==
    /\ Returned("attributes")
    /\ api.fn = "deserialize"
    /\ BuiltOp.kind = "delete"
    /\ BuiltOp.attributes # <<>>
    /\ api.ret.val = None

\* C16: len() of a text Insert is the number of characters of the text, of a
\* non-text Insert it is 1, of a Retain or Delete it is the stored length.
C16_LenIsCharacterCount ==
    Returned("len") =>
        api.ret = Ok(IF Op_is_text_insert(BuiltOp) THEN Len(BuiltOp.value.v)
                     ELSE IF BuiltOp.kind = "insert" THEN 1
                     ELSE BuiltOp.value.v)

\* C17: value() panics on every Retain and Delete and returns the content of
\* every Insert; value_as_string() panics on every Retain, Delete and non-text
\* Insert and returns the text of every text Insert.
C17_AccessorsPanicOnMisuse ==
    /\ Returned("value") =>
           IF BuiltOp.kind = "insert"
           THEN api.ret = Ok(BuiltOp.value)
           ELSE api.ret = Panic
    /\ Returned("value_as_string") =>
           IF BuiltOp.kind = "insert" /\ BuiltOp.value.t = "String"
           THEN api.ret = Ok(BuiltOp.value.v)
           ELSE api.ret = Panic

\* value() was called on a Retain
C17_Witness ==
    /\ Returned("value")
    /\ BuiltOp.kind = "retain"
    /\ api.ret = Panic

\* C18: every Op that was produced, by a constructor or by deserialization,
\* has length >= 1 if it is a Retain or Delete, and carries non-empty
\* attributes only if it is a text Insert (or a Retain).
C18_DeserializedOpsValid ==
    api.fn # "none" /\ api.result.tag = "Ok" =>
        /\ BuiltOp.kind \in {"retain", "delete"} => BuiltOp.value.v >= 1
        /\ BuiltOp.kind = "insert" /\ BuiltOp.attributes # <<>> =>
               BuiltOp.value.t = "String"

\* C21: a current() call made while the slot holds a segment returns that
\* segment and changes neither the remaining ops, the offset, the buffer nor
\* the slot; once a call returned no segment, every later current() and
\* next() returns none and leaves the context as it is.
C21_CurrentIsPeek ==
    [][/\ api'.fn = "current" /\ current # None =>
              /\ api'.ret = current
              /\ UNCHANGED <<ops, insert_index, inline_buf, current>>
       /\ api'.fn \in {"current", "next"} /\ api.fn \in {"current", "next"}
              /\ api.ret = None =>
              /\ api'.ret = None
              /\ UNCHANGED <<ops, insert_index, inline_buf, current>>]_vars

\* a current() call, the fourth call or later on the context, returned a
\* segment of a text not yet read to its end, with text waiting in the buffer
C21_Witness ==
    /\ pc = "ctx"
    /\ api.fn = "current"
    /\ api.n >= 4
    /\ api.ret # None
    /\ inline_buf # <<>>
    /\ ops # <<>>
    /\ insert_index < Len(ops[Len(ops)].value.v)

\* C22: rendering an op sequence writes what rendering the same sequence
\* without its retains, deletes, non-text inserts and empty-text inserts
\* writes; with nothing but such ops nothing is written.
C22_SkippedOpsInvisible ==
    /\ pc = "done" /\ prev # None => dest = prev[1]
    /\ pc = "done" /\ Stripped(input) = <<>> => dest = <<>>

\* both renders returned for ops with a skipped op between two text inserts
C22_Witness ==
    /\ pc = "done"
    /\ prev # None
    /\ dest # <<>>
    /\ Len(input) = 3
    /\ Skipped(input[2])
    /\ ~Skipped(input[1])
    /\ ~Skipped(input[3])

\* the characters of the texts in os
RECURSIVE TextSize(_)
TextSize(os) ==
    IF os = <<>> THEN 0
    ELSE TextSize(SubSeq(os, 1, Len(os) - 1))
         + (IF Op_is_text_insert(os[Len(os)]) THEN Len(os[Len(os)].value.v) ELSE 0)

\* the characters of text the cursor of context c has not passed yet
UnreadOf(c) ==
    IF c.ops = <<>> THEN 0
    ELSE LET op == c.ops[Len(c.ops)] IN
         IF Op_is_text_insert(op)
         THEN TextSize(c.ops)
              - (IF c.insert_index < Len(op.value.v) THEN c.insert_index
                 ELSE Len(op.value.v))
         ELSE TextSize(c.ops)

Unread == UnreadOf(visitors)

\* the characters the segment in the slot covers: its text, and its newline
\* if it is a terminated line
SlotChars ==
    IF current = None THEN 0
    ELSE IF /\ current[1].tag = "NewLine"
            /\ insert_index <= Len(current[1].op.value.v)
         THEN Len(current[1].str) + 1
         ELSE Len(current[1].str)

\* the main loop is at a line that vistor_header claims
HeaderLinePending ==
    /\ pc = "walk"
    /\ Pending # None
    /\ Pending[1].tag = "NewLine"
    /\ ~RecognizedList(Pending[1].op)
    /\ NumericHeader(Pending[1].op)

Occurs(sub, s) ==
    \E i \in 0..(Len(s) - Len(sub)) : SubSeq(s, i + 1, i + Len(sub)) = sub

\* the cursor went forward: an op left the remaining list, or the offset grew
CursorAdvanced ==
    \/ Len(ops') < Len(ops)
    \/ ops' = ops /\ insert_index' > insert_index

\* C24: rendering terminates.  Every step of the main loop and of the list
\* loop advances the cursor, or leaves the loop it is in (the list loop ends,
\* the pass ends); with each step a non-negative measure of the unread ops
\* and of the loop position strictly falls, so no render runs forever; a
\* pass that ended has read every op, and takes no further step.
C24_RenderTerminates ==
    /\ [][/\ pc \in {"walk", "list"}
          /\ CursorAdvanced \/ pc' # pc
          /\ pc = "list" /\ pc' = "walk" /\ current' # None => CursorAdvanced
          /\ Remaining' < Remaining
          /\ Remaining' >= 0]_vars
    /\ [](pc = "done" => ops = <<>> /\ current = None)

\* a pass ended after the terminating line of a list group was dispatched
\* again as a paragraph
C24_Witness ==
    /\ pc = "done"
    /\ Occurs(UL_CLOSE \o P_OPEN, dest)
    /\ EndsWith(dest, P_CLOSE)

\* C25: when write_into has returned Ok, no op remains, the slot holds no
\* segment and the inline buffer is empty.
C25_DrainedOnSuccess ==
    pc = "done" =>
        /\ ops = <<>>
        /\ current = None
        /\ inline_buf = <<>>

\* a pass returned Ok whose last segment was inline text, flushed into the
\* final paragraph
C25_Witness ==
    /\ pc = "done"
    /\ Len(input) >= 2
    /\ Op_is_text_insert(input[1])
    /\ input[1].value.v # <<>>
    /\ ~Contains(input[1].value.v, NL)
    /\ EndsWith(dest, input[1].value.v \o P_CLOSE)
    /\ inline_buf = <<>>

\* the position of the first ">" of s (0 if there is none)
RECURSIVE TagEnd(_, _)
TagEnd(s, i) ==
    IF i > Len(s) THEN 0
    ELSE IF s[i] = ">" THEN i
    ELSE TagEnd(s, i + 1)

\* s cut into tags ("<" up to the next ">") and single characters of text
RECURSIVE Tokens(_)
Tokens(s) ==
    IF s = <<>> THEN <<>>
    ELSE IF Head(s) = "<" /\ TagEnd(s, 1) # 0
         THEN <<SubSeq(s, 1, TagEnd(s, 1))>>
              \o Tokens(SubSeq(s, TagEnd(s, 1) + 1, Len(s)))
         ELSE <<<<Head(s)>>>> \o Tokens(Tail(s))

IsTag(tok) == Len(tok) >= 3 /\ tok[1] = "<"
IsCloseTag(tok) == IsTag(tok) /\ tok[2] = "/"
TagName(tok) ==
    IF IsCloseTag(tok) THEN SubSeq(tok, 3, Len(tok) - 1)
    ELSE SubSeq(tok, 2, Len(tok) - 1)

ListName == <<"u", "l">>
ItemName == <<"l", "i">>
HeadingNames == {<<"h", Digits[i]>> : i \in 1..Len(Digits)}
TopNames == {<<"p">>, ListName} \cup HeadingNames
InlineNames == {<<"s">>, <<"u">>, <<"e", "m">>, <<"b">>}
\* the elements inline tags may stand in
HolderNames == {<<"p">>, ItemName} \cup HeadingNames

\* toks is well nested when read with the elements of `open` open, outermost
\* first, and leaves exactly the elements of `left` open
RECURSIVE WellNested(_, _, _)
WellNested(toks, open, left) ==
    IF toks = <<>> THEN open = left
    ELSE LET tok == Head(toks)
             name == TagName(tok)
         IN  IF ~IsTag(tok) THEN WellNested(Tail(toks), open, left)
             ELSE IF IsCloseTag(tok)
             THEN /\ open # <<>>
                  /\ open[Len(open)] = name
                  /\ WellNested(Tail(toks), SubSeq(open, 1, Len(open) - 1), left)
             ELSE /\ \/ name \in TopNames /\ open = <<>>
                     \/ name = ItemName /\ open = <<ListName>>
                     \/ /\ name \in InlineNames
                        /\ open # <<>>
                        /\ open[1] \in HolderNames
                           \/ (Len(open) >= 2 /\ open[1] = ListName
                               /\ open[2] = ItemName)
                  /\ WellNested(Tail(toks), open \o <<name>>, left)

\* C26: the tags written are balanced and properly nested.  <p>, <hN> and
\* <ul> open only at top level, <li> only directly inside a <ul>, inline tags
\* only inside a <p>, <hN> or <li>; every closing tag closes the innermost
\* open element; when the render has returned nothing is left open, and while
\* it runs only the <ul> of the list group being written is.
C26_TagsBalanced ==
    /\ pc = "done" => WellNested(Tokens(dest), <<>>, <<>>)
    /\ pc = "walk" => WellNested(Tokens(dest), <<>>, <<>>)
    /\ pc = "list" => WellNested(Tokens(dest), <<>>, <<ListName>>)

\* a render returned that wrote formatted text inside an item of a list
C26_Witness ==
    /\ pc = "done"
    /\ Occurs(LI_OPEN \o open_tag(<<"b">>), dest)
    /\ Occurs(LI_CLOSE \o UL_CLOSE, dest)

====
